---- MODULE Spec2Model ----
(***************************************************************************)
(* flowService: flow create / read / update / delete / list / count, with   *)
(* update serialised per flow by a keyed lock.                               *)
(*                                                                           *)
(* Every await of the service is one step of the calling request; requests   *)
(* interleave at their awaits.  The repository, the version service, the     *)
(* instance service and the lock are collaborators: their effects are        *)
(* modelled from their contracts.  Time is abstracted: a lock request is     *)
(* granted when the key is free, and may time out while the key is held.     *)
(* Pagination (limit, cursor), artifacts and telemetry are not modelled.     *)
(***************************************************************************)
EXTENDS Integers, FiniteSets, Sequences, TLC

\* ---------------------------------------------------------------- bounds
MaxFlows == 2      \* flow ids apId() hands out
MaxCalls == 3      \* requests the service receives in one behaviour

Procs    == {"c1", "c2"}           \* concurrent requests
Projects == {"p1", "p2"}           \* projects whose clients call the service
CreateProjects == {"p1"}           \* the project the flows are created in
FlowIds  == 1 .. MaxFlows
GhostId  == 0                      \* an id no flow ever had
LockKeys == {GhostId} \cup FlowIds

\* ---------------------------------------------------------------- values
Null      == [null |-> TRUE]       \* JS null (a missing row, a missing version)
Undefined == "<undefined>"         \* an omitted optional argument
DbNull    == "<null>"              \* SQL NULL in the folderId column
NullSentinel == "NULL"             \* the 'NULL' string of list / count
FolderIds == {"fA"}                \* folder ids sent to create / update
NoOwner   == "free"
NoVersionId == 0                   \* versionId: undefined

CHANGE_FOLDER  == "CHANGE_FOLDER"
UPDATE_TRIGGER == "UPDATE_TRIGGER"
LOCKED == "LOCKED"
DRAFT  == "DRAFT"
UNPUBLISHED == "UNPUBLISHED"
STATUS_ENABLED == "ENABLED"
FLOW_NOT_FOUND == "FLOW_NOT_FOUND"
LOCK_TIMEOUT == "LOCK_TIMEOUT"
STORE_ERROR == "STORE_ERROR"
TYPE_ERROR == "TypeError"

Requests == {[type |-> CHANGE_FOLDER, folderId |-> fo] : fo \in {Undefined} \cup FolderIds}
            \cup {[type |-> UPDATE_TRIGGER, folderId |-> Undefined]}
NoReq == [type |-> "none", folderId |-> Undefined]

VARIABLES
    flows,          \* flow table: id -> row or Null
    nextFlowId,     \* apId() for flows
    versions,       \* flow_version table: a set of rows
    nextVersionId,  \* apId() for versions; also their creation order
    instances,      \* flow_instance table: flow id -> row or Null
    lock,           \* the lock service: key -> holder
    pc, call, loc, res,   \* each request: position, arguments, locals, outcome
    acts,           \* the collaborator calls the current request has made
    calls,          \* requests received so far
    removal         \* flow id -> what the delete that removed the row had done before

vars == <<flows, nextFlowId, versions, nextVersionId, instances, lock,
          pc, call, loc, res, acts, calls, removal>>

dbVars   == <<flows, nextFlowId, versions, nextVersionId, instances>>
histVars == <<calls, removal>>

Call0 == [op |-> "none", projectId |-> "-", flowId |-> GhostId,
          versionId |-> NoVersionId, req |-> NoReq, folderId |-> Undefined]
Loc0  == [flow |-> Null, version |-> Null, err |-> "none", rows |-> {}]
Res0  == [kind |-> "none"]
NotRemoved == [removed |-> FALSE]

\* ------------------------------------------------------------ repository
\* flowRepo.findOneBy({ projectId, id })
FindOneBy(fl, projectId, id) ==
    IF id \in DOMAIN fl /\ fl[id] # Null /\ fl[id].projectId = projectId
    THEN fl[id] ELSE Null

\* flowRepo.save: a column given as undefined is stored as NULL
ToColumn(folderId) == IF folderId = Undefined THEN DbNull ELSE folderId

\* Faulty variant: folderId: request.request.folderId, without the ?? null
OrNullKeepsUndefined(folderId) == folderId

\* request.request.folderId ?? null
OrNull(folderId) == IF folderId = Undefined THEN DbNull ELSE folderId

\* flowRepo.update(id, row): rewrites the row with that id, if there is one
RepoUpdate(fl, id, row) ==
    IF id \in DOMAIN fl /\ fl[id] # Null THEN [fl EXCEPT ![id] = row] ELSE fl

Rows(fl) == {fl[i] : i \in {j \in DOMAIN fl : fl[j] # Null}}

\* ------------------------------------------------------- version service
LatestOf(vs, flowId) ==
    LET mine == {v \in vs : v.flowId = flowId}
    IN  IF mine = {} THEN Null
        ELSE CHOOSE v \in mine : \A w \in mine : w.id <= v.id

\* flowVersionService.getFlowVersion(projectId, flowId, versionId, includeArtifacts)
GetFlowVersion(vs, projectId, flowId, versionId) ==
    IF versionId = NoVersionId THEN LatestOf(vs, flowId)
    ELSE LET hit == {v \in vs : v.flowId = flowId /\ v.id = versionId}
         IN  IF hit = {} THEN Null ELSE CHOOSE v \in hit : TRUE

EmptyTrigger == [type |-> "EMPTY", valid |-> FALSE]

\* the request create passes to createVersion
InitialVersionRequest == [valid |-> FALSE, trigger |-> EmptyTrigger, edits |-> 0]

\* flowVersionService.createVersion(flowId, request): a new DRAFT row
NewVersion(id, flowId, request) ==
    [id |-> id, flowId |-> flowId, state |-> DRAFT, valid |-> request.valid,
     trigger |-> request.trigger, edits |-> request.edits]

\* the content an operation request makes of a version
Mutated(version, request) ==
    [version EXCEPT !.trigger = [type |-> "PIECE", valid |-> TRUE],
                    !.valid = TRUE, !.edits = version.edits + 1]

\* flowVersionService.applyOperation: writes the mutated content to the row
ApplyOperation(vs, version, request) ==
    {IF v.id = version.id THEN Mutated(version, request) ELSE v : v \in vs}

\* ------------------------------------------------------ instance service
InstanceGet(ins, projectId, flowId) ==
    IF flowId \in DOMAIN ins /\ ins[flowId] # Null /\ ins[flowId].projectId = projectId
    THEN ins[flowId] ELSE Null

\* flowInstanceService.onFlowDelete({ projectId, flowId })
OnFlowDelete(ins, projectId, flowId) ==
    IF InstanceGet(ins, projectId, flowId) # Null
    THEN [ins EXCEPT ![flowId] = Null] ELSE ins

\* instance ? instance.status : UNPUBLISHED
StatusOf(instance) == IF instance # Null THEN instance.status ELSE UNPUBLISHED

\* { ...flow, version, status }
Compose(flow, version, status) ==
    [id |-> flow.id, projectId |-> flow.projectId, folderId |-> flow.folderId,
     version |-> version, status |-> status]

\* ---------------------------------------------------------------- Init
Init ==
    /\ flows = [i \in FlowIds |-> Null]
    /\ nextFlowId = 1
    /\ versions = {}
    /\ nextVersionId = 1
    /\ instances = [i \in FlowIds |-> Null]
    /\ lock = [i \in LockKeys |-> NoOwner]
    /\ pc = [c \in Procs |-> "idle"]
    /\ call = [c \in Procs |-> Call0]
    /\ loc = [c \in Procs |-> Loc0]
    /\ res = [c \in Procs |-> Res0]
    /\ acts = [c \in Procs |-> {}]
    /\ calls = 0
    /\ removal = [i \in FlowIds |-> NotRemoved]

\* ---------------------------------------------------------------- helpers
Error(code, id) == [kind |-> "error", code |-> code, id |-> id]

Args(op, projectId, flowId) ==
    [Call0 EXCEPT !.op = op, !.projectId = projectId, !.flowId = flowId]

\* a request begins once the one before it on this connection is over
Start(c, args) ==
    /\ pc[c] \in {"idle", "done"}
    /\ calls < MaxCalls
    /\ calls' = calls + 1
    /\ call' = [call EXCEPT ![c] = args]

\* the request returns or throws: its outcome is with its caller, its locals gone
Finish(c, result) ==
    /\ pc' = [pc EXCEPT ![c] = "done"]
    /\ res' = [res EXCEPT ![c] = result]
    /\ loc' = [loc EXCEPT ![c] = Loc0]

Goto(c, label) ==
    /\ pc' = [pc EXCEPT ![c] = label]
    /\ res' = [res EXCEPT ![c] = Res0]

Did(c, what) == acts' = [acts EXCEPT ![c] = acts[c] \cup {what}]

\* the ids a client can name: those handed out so far, and one that never was
KnownIds == {GhostId} \cup (1 .. (nextFlowId - 1))

\* ---------------------------------------------------------------- create
\* lines 100-105: apId(), flowRepo.save(flow)
Create(c, projectId, folderId) ==
    /\ nextFlowId <= MaxFlows
    /\ Start(c, Args("create", projectId, nextFlowId))
    /\ LET flow == [id |-> nextFlowId, projectId |-> projectId,
                    folderId |-> ToColumn(folderId)]
       IN  /\ flows' = [flows EXCEPT ![nextFlowId] = flow]
           /\ loc' = [loc EXCEPT ![c] = [Loc0 EXCEPT !.flow = flow]]
    /\ nextFlowId' = nextFlowId + 1
    /\ acts' = [acts EXCEPT ![c] = {"flowRepo.save"}]
    /\ Goto(c, "c_version")
    /\ UNCHANGED <<versions, nextVersionId, instances, lock, removal>>

\* lines 106-116: createVersion(savedFlow.id, { valid: false, trigger: EmptyTrigger })
CreateInitialVersion(c) ==
    /\ pc[c] = "c_version"
    /\ versions' = versions \cup
           {NewVersion(nextVersionId, loc[c].flow.id, InitialVersionRequest)}
    /\ nextVersionId' = nextVersionId + 1
    /\ Did(c, "createVersion")
    /\ Goto(c, "c_read")
    /\ UNCHANGED <<flows, nextFlowId, instances, lock, call, loc, histVars>>

\* lines 117-130: getFlowVersion(projectId, savedFlow.id, undefined, false); return
CreateReturn(c) ==
    /\ pc[c] = "c_read"
    /\ LET latestFlowVersion ==
               GetFlowVersion(versions, call[c].projectId, loc[c].flow.id, NoVersionId)
       IN  Finish(c, [kind |-> "created", flow |-> loc[c].flow,
                      version |-> latestFlowVersion])
    /\ Did(c, "getFlowVersion")
    /\ UNCHANGED <<dbVars, lock, call, histVars>>

\* ---------------------------------------------------------------- getOne
\* line 186: getOne({ projectId, id, versionId, includeArtifacts })
GetOne(c, projectId, id, versionId) ==
    /\ Start(c, [Args("getOne", projectId, id) EXCEPT !.versionId = versionId])
    /\ acts' = [acts EXCEPT ![c] = {}]
    /\ Goto(c, "g_find")
    /\ UNCHANGED <<dbVars, lock, loc, removal>>

\* lines 132-133: getOneOrThrow calls getOne with versionId undefined
GetOneOrThrow(c, projectId, id) ==
    /\ Start(c, Args("getOneOrThrow", projectId, id))
    /\ acts' = [acts EXCEPT ![c] = {}]
    /\ Goto(c, "g_find")
    /\ UNCHANGED <<dbVars, lock, loc, removal>>

\* Faulty variant: getOneOrThrow hands getOne's null on instead of throwing
OnNullNoThrow(op, id) == [kind |-> "null"]

\* what getOne's caller makes of a null: lines 135-142 throw, line 235 returns it
OnNull(op, id) ==
    IF op = "getOneOrThrow" THEN Error(FLOW_NOT_FOUND, id) ELSE [kind |-> "null"]

\* lines 187-193: findOneBy({ projectId, id }); null when absent
GetFind(c) ==
    /\ pc[c] = "g_find"
    /\ LET flow == FindOneBy(flows, call[c].projectId, call[c].flowId)
       IN  IF flow = Null
           THEN Finish(c, OnNull(call[c].op, call[c].flowId))
           ELSE /\ Goto(c, "g_version")
                /\ loc' = [loc EXCEPT ![c].flow = flow]
    /\ Did(c, "getOne.findOneBy")
    /\ UNCHANGED <<dbVars, lock, call, histVars>>

\* line 194: getFlowVersion(projectId, id, versionId, includeArtifacts)!
GetVersion(c) ==
    /\ pc[c] = "g_version"
    /\ loc' = [loc EXCEPT ![c].version =
                 GetFlowVersion(versions, call[c].projectId, call[c].flowId,
                                call[c].versionId)]
    /\ Did(c, "getOne.getFlowVersion")
    /\ Goto(c, "g_instance")
    /\ UNCHANGED <<dbVars, lock, call, histVars>>

\* lines 195-200: flowInstanceService.get; compose and return
GetInstance(c) ==
    /\ pc[c] = "g_instance"
    /\ LET instance == InstanceGet(instances, call[c].projectId, loc[c].flow.id)
       IN  Finish(c, [kind |-> "flow",
                      flow |-> Compose(loc[c].flow, loc[c].version, StatusOf(instance))])
    /\ Did(c, "getOne.instance")
    /\ UNCHANGED <<dbVars, lock, call, histVars>>

\* ---------------------------------------------------------------- update
InTry   == {"u_folder", "u_getver", "u_fork", "u_apply"}   \* lines 217-231
Holding == {"u_find", "u_release"} \cup InTry              \* lines 208-233

\* Faulty variant: update goes on without waiting for the key to be free
UpdateNoLock(c, projectId, flowId, request) ==
    /\ Start(c, [Args("update", projectId, flowId) EXCEPT !.req = request])
    /\ lock' = [lock EXCEPT ![flowId] = c]
    /\ acts' = [acts EXCEPT ![c] = {"acquireLock"}]
    /\ Goto(c, "u_find")
    /\ UNCHANGED <<dbVars, loc, removal>>

\* lines 204-207: acquireLock({ key: flowId, timeout: 5000 }) is granted
Update(c, projectId, flowId, request) ==
    /\ Start(c, [Args("update", projectId, flowId) EXCEPT !.req = request])
    /\ lock[flowId] = NoOwner
    /\ lock' = [lock EXCEPT ![flowId] = c]
    /\ acts' = [acts EXCEPT ![c] = {"acquireLock"}]
    /\ Goto(c, "u_find")
    /\ UNCHANGED <<dbVars, loc, removal>>

\* Faulty variant: the timeout is swallowed and update goes on without the lock
UpdateTimeoutProceeds(c, projectId, flowId, request) ==
    /\ Start(c, [Args("update", projectId, flowId) EXCEPT !.req = request])
    /\ lock[flowId] # NoOwner
    /\ acts' = [acts EXCEPT ![c] = {}]
    /\ Goto(c, "u_find")
    /\ UNCHANGED <<dbVars, lock, loc, removal>>

\* lines 204-207: the key stays held for the whole timeout; acquireLock rejects
UpdateLockTimeout(c, projectId, flowId, request) ==
    /\ Start(c, [Args("update", projectId, flowId) EXCEPT !.req = request])
    /\ lock[flowId] # NoOwner
    /\ acts' = [acts EXCEPT ![c] = {}]
    /\ Finish(c, Error(LOCK_TIMEOUT, flowId))
    /\ UNCHANGED <<dbVars, lock, removal>>

\* lines 208-218: findOneBy; FLOW_NOT_FOUND is thrown before the try
UpdFind(c) ==
    /\ pc[c] = "u_find"
    /\ LET flow == FindOneBy(flows, call[c].projectId, call[c].flowId)
       IN  IF flow = Null
           THEN Finish(c, Error(FLOW_NOT_FOUND, call[c].flowId))
           ELSE /\ loc' = [loc EXCEPT ![c].flow = flow]
                /\ Goto(c, IF call[c].req.type = CHANGE_FOLDER
                           THEN "u_folder" ELSE "u_getver")
    /\ Did(c, "findOneBy")
    /\ UNCHANGED <<dbVars, lock, call, histVars>>

\* lines 219-222: flowRepo.update(flow.id, { ...flow, folderId: folderId ?? null })
UpdChangeFolder(c) ==
    /\ pc[c] = "u_folder"
    /\ flows' = RepoUpdate(flows, loc[c].flow.id,
                   [loc[c].flow EXCEPT !.folderId = OrNull(call[c].req.folderId)])
    /\ Did(c, "flowRepo.update")
    /\ Goto(c, "u_release")
    /\ UNCHANGED <<nextFlowId, versions, nextVersionId, instances, lock, call, loc,
                   histVars>>

\* Faulty variant: no fork: the operation is applied to the latest version as it is
UpdGetVersionNoFork(c) ==
    /\ pc[c] = "u_getver"
    /\ LET lastVersion ==
               GetFlowVersion(versions, call[c].projectId, call[c].flowId, NoVersionId)
       IN  IF lastVersion = Null
           THEN /\ loc' = [loc EXCEPT ![c].err = TYPE_ERROR]
                /\ Goto(c, "u_release")
           ELSE /\ loc' = [loc EXCEPT ![c].version = lastVersion]
                /\ Goto(c, "u_apply")
    /\ Did(c, "getFlowVersion")
    /\ UNCHANGED <<dbVars, lock, call, histVars>>

\* lines 225-226: getFlowVersion(...)!, then lastVersion.state: a TypeError on null
UpdGetVersion(c) ==
    /\ pc[c] = "u_getver"
    /\ LET lastVersion ==
               GetFlowVersion(versions, call[c].projectId, call[c].flowId, NoVersionId)
       IN  IF lastVersion = Null
           THEN /\ loc' = [loc EXCEPT ![c].err = TYPE_ERROR]
                /\ Goto(c, "u_release")
           ELSE /\ loc' = [loc EXCEPT ![c].version = lastVersion]
                /\ Goto(c, IF lastVersion.state = LOCKED THEN "u_fork" ELSE "u_apply")
    /\ Did(c, "getFlowVersion")
    /\ UNCHANGED <<dbVars, lock, call, histVars>>

\* line 227: lastVersion = createVersion(flowId, lastVersion)
UpdFork(c) ==
    /\ pc[c] = "u_fork"
    /\ LET forked == NewVersion(nextVersionId, call[c].flowId, loc[c].version)
       IN  /\ versions' = versions \cup {forked}
           /\ loc' = [loc EXCEPT ![c].version = forked]
    /\ nextVersionId' = nextVersionId + 1
    /\ Did(c, "createVersion")
    /\ Goto(c, "u_apply")
    /\ UNCHANGED <<flows, nextFlowId, instances, lock, call, histVars>>

\* line 229: applyOperation(projectId, lastVersion, request)
UpdApply(c) ==
    /\ pc[c] = "u_apply"
    /\ versions' = ApplyOperation(versions, loc[c].version, call[c].req)
    /\ Did(c, "applyOperation")
    /\ Goto(c, "u_release")
    /\ UNCHANGED <<flows, nextFlowId, nextVersionId, instances, lock, call, loc,
                   histVars>>

\* lines 232-235: finally release(); rethrow, or go on to getOne
UpdRelease(c) ==
    /\ pc[c] = "u_release"
    /\ lock' = [lock EXCEPT ![call[c].flowId] = NoOwner]
    /\ IF loc[c].err # "none"
       THEN Finish(c, Error(loc[c].err, call[c].flowId))
       ELSE /\ Goto(c, "g_find")
            /\ loc' = [loc EXCEPT ![c] = Loc0]
    /\ Did(c, "release")
    /\ UNCHANGED <<dbVars, call, histVars>>

\* a store call of create (line 106) or of update's try block rejects
StoreFails(c) ==
    /\ pc[c] \in {"c_version"} \cup InTry
    /\ IF pc[c] = "c_version"
       THEN Finish(c, Error(STORE_ERROR, call[c].flowId))
       ELSE /\ loc' = [loc EXCEPT ![c].err = STORE_ERROR]
            /\ Goto(c, "u_release")
    /\ UNCHANGED <<dbVars, lock, call, acts, histVars>>

\* ---------------------------------------------------------------- delete
\* Faulty variant: the two awaits of delete swapped: the record goes first
DeleteRecordFirst(c, projectId, flowId) ==
    /\ Start(c, Args("delete", projectId, flowId))
    /\ LET hit == FindOneBy(flows, projectId, flowId) # Null
       IN  /\ flows' = IF hit THEN [flows EXCEPT ![flowId] = Null] ELSE flows
           /\ versions' = IF hit THEN {v \in versions : v.flowId # flowId} ELSE versions
           /\ instances' = IF hit THEN [instances EXCEPT ![flowId] = Null] ELSE instances
           /\ removal' = IF hit
                         THEN [removal EXCEPT ![flowId] =
                                 [removed |-> TRUE, cleanupRan |-> FALSE,
                                  cleanupSawRecord |-> FALSE,
                                  hadVersion |-> LatestOf(versions, flowId) # Null]]
                         ELSE removal
    /\ loc' = [loc EXCEPT ![c] = Loc0]
    /\ acts' = [acts EXCEPT ![c] = {"flowRepo.delete"}]
    /\ Goto(c, "d_delete")
    /\ UNCHANGED <<nextFlowId, nextVersionId, lock>>

\* line 238: await flowInstanceService.onFlowDelete({ projectId, flowId })
\* (loc.flow remembers what the cleanup could see of the flow record)
Delete(c, projectId, flowId) ==
    /\ Start(c, Args("delete", projectId, flowId))
    /\ instances' = OnFlowDelete(instances, projectId, flowId)
    /\ loc' = [loc EXCEPT ![c] =
                 [Loc0 EXCEPT !.flow = FindOneBy(flows, projectId, flowId)]]
    /\ acts' = [acts EXCEPT ![c] = {"onFlowDelete"}]
    /\ Goto(c, "d_delete")
    /\ UNCHANGED <<flows, nextFlowId, versions, nextVersionId, lock, removal>>

\* line 239: await flowRepo.delete({ projectId, id }); versions and instance cascade
DeleteRecord(c) ==
    /\ pc[c] = "d_delete"
    /\ LET flowId == call[c].flowId
           hit == FindOneBy(flows, call[c].projectId, flowId) # Null
       IN  /\ flows' = IF hit THEN [flows EXCEPT ![flowId] = Null] ELSE flows
           /\ versions' = IF hit THEN {v \in versions : v.flowId # flowId} ELSE versions
           /\ instances' = IF hit THEN [instances EXCEPT ![flowId] = Null] ELSE instances
           /\ removal' = IF hit
                         THEN [removal EXCEPT ![flowId] =
                                 [removed |-> TRUE,
                                  cleanupRan |-> "onFlowDelete" \in acts[c],
                                  cleanupSawRecord |-> loc[c].flow # Null,
                                  hadVersion |-> LatestOf(versions, flowId) # Null]]
                         ELSE removal
    /\ Did(c, "flowRepo.delete")
    /\ Finish(c, [kind |-> "void"])
    /\ UNCHANGED <<nextFlowId, nextVersionId, lock, call, calls>>

\* ---------------------------------------------------------- list / count
NoFilter == "<no key>"
IsNull   == "<IsNull()>"

\* Faulty variant: the 'NULL' string is compared like any folder id
ListWhereNoSentinel(projectId, folderId) ==
    [projectId |-> projectId,
     folderId |-> IF folderId # Undefined THEN folderId ELSE NoFilter]

\* lines 157-160: queryWhere
ListWhere(projectId, folderId) ==
    [projectId |-> projectId,
     folderId |-> IF folderId # Undefined
                  THEN (IF folderId = NullSentinel THEN IsNull ELSE folderId)
                  ELSE NoFilter]

\* lines 245-255: the where clause count hands to flowRepo.count
CountWhere(projectId, folderId) ==
    IF folderId = Undefined
    THEN [projectId |-> projectId, folderId |-> NoFilter]
    ELSE IF folderId # NullSentinel
         THEN [projectId |-> projectId, folderId |-> folderId]
         ELSE [projectId |-> projectId, folderId |-> IsNull]

\* the store's evaluation of a where clause on a row
Matches(row, where) ==
    /\ row.projectId = where.projectId
    /\ \/ where.folderId = NoFilter
       \/ where.folderId = IsNull /\ row.folderId = DbNull
       \/ where.folderId \notin {NoFilter, IsNull} /\ row.folderId = where.folderId

Select(fl, where) == {row \in Rows(fl) : Matches(row, where)}

\* lines 147-162: paginate(createQueryBuilder('flow').where(queryWhere))
List(c, projectId, folderId) ==
    /\ Start(c, [Args("list", projectId, GhostId) EXCEPT !.folderId = folderId])
    /\ loc' = [loc EXCEPT ![c] =
                 [Loc0 EXCEPT !.rows = Select(flows, ListWhere(projectId, folderId))]]
    /\ acts' = [acts EXCEPT ![c] = {"paginate"}]
    /\ Goto(c, "l_format")
    /\ UNCHANGED <<dbVars, lock, removal>>

\* lines 163-184: the rows' latest versions and instances; formattedFlows
ListFormat(c) ==
    /\ pc[c] = "l_format"
    /\ Finish(c, [kind |-> "page",
                  data |-> {Compose(flow,
                              GetFlowVersion(versions, call[c].projectId, flow.id,
                                             NoVersionId),
                              StatusOf(InstanceGet(instances, call[c].projectId,
                                                   flow.id)))
                            : flow \in loc[c].rows}])
    /\ Did(c, "getFlowVersion")
    /\ UNCHANGED <<dbVars, lock, call, histVars>>

\* lines 241-256: count
Count(c, projectId, folderId) ==
    /\ Start(c, [Args("count", projectId, GhostId) EXCEPT !.folderId = folderId])
    /\ acts' = [acts EXCEPT ![c] = {"flowRepo.count"}]
    /\ Finish(c, [kind |-> "count",
                  n |-> Cardinality(Select(flows, CountWhere(projectId, folderId)))])
    /\ UNCHANGED <<dbVars, lock, removal>>

\* ------------------------------------------------------------ environment
\* Publication, outside the flow service: the flow's latest version becomes
\* LOCKED and its instance ENABLED.  It changes the version chain, so it does
\* not run while an update admitted for the flow is inside its try block.
Publish(flowId) ==
    /\ flows[flowId] # Null
    /\ \A c \in Procs : ~(call[c].op = "update" /\ call[c].flowId = flowId
                          /\ pc[c] \in InTry)
    /\ LET latest == LatestOf(versions, flowId)
       IN  /\ latest # Null
           /\ latest.state = DRAFT
           /\ versions' = (versions \ {latest}) \cup {[latest EXCEPT !.state = LOCKED]}
    /\ instances' = [instances EXCEPT ![flowId] =
                       [projectId |-> flows[flowId].projectId, status |-> STATUS_ENABLED]]
    /\ UNCHANGED <<flows, nextFlowId, nextVersionId, lock, pc, call, loc, res, acts,
                   histVars>>

\* ---------------------------------------------------------------- Next
FolderArgs == {Undefined} \cup FolderIds

Next ==
    \/ \E c \in Procs, p \in CreateProjects, fo \in FolderArgs : Create(c, p, fo)
    \/ \E c \in Procs : CreateInitialVersion(c)
    \/ \E c \in Procs : CreateReturn(c)
    \/ \E c \in Procs, p \in Projects, f \in KnownIds : GetOne(c, p, f, NoVersionId)
    \/ \E c \in Procs, p \in Projects, f \in KnownIds : GetOneOrThrow(c, p, f)
    \/ \E c \in Procs : GetFind(c)
    \/ \E c \in Procs : GetVersion(c)
    \/ \E c \in Procs : GetInstance(c)
    \/ \E c \in Procs, p \in Projects, f \in KnownIds, r \in Requests : Update(c, p, f, r)
    \/ \E c \in Procs, p \in Projects, f \in KnownIds, r \in Requests :
           UpdateLockTimeout(c, p, f, r)
    \/ \E c \in Procs : UpdFind(c)
    \/ \E c \in Procs : UpdChangeFolder(c)
    \/ \E c \in Procs : UpdGetVersion(c)
    \/ \E c \in Procs : UpdFork(c)
    \/ \E c \in Procs : UpdApply(c)
    \/ \E c \in Procs : UpdRelease(c)
    \/ \E c \in Procs : StoreFails(c)
    \/ \E c \in Procs, p \in Projects, f \in KnownIds : Delete(c, p, f)
    \/ \E c \in Procs : DeleteRecord(c)
    \/ \E f \in FlowIds : Publish(f)

Spec == Init /\ [][Next]_vars

\* ------------------------------------------------- list / count on any table
\* The folder column holds what create stored: NULL, a folder id, or the
\* string 'NULL' itself when a client sent it as a folder id.
StoredFolders == {DbNull, NullSentinel} \cup FolderIds
QueryFolderArgs == {Undefined, NullSentinel} \cup FolderIds

InitQuery ==
    /\ flows \in [FlowIds -> {Null} \cup
                     [id : FlowIds, projectId : Projects, folderId : StoredFolders]]
    /\ \A i \in FlowIds : flows[i] # Null => flows[i].id = i
    /\ nextFlowId = MaxFlows + 1
    /\ versions = {NewVersion(i, i, InitialVersionRequest) :
                     i \in {j \in FlowIds : flows[j] # Null}}
    /\ nextVersionId = MaxFlows + 1
    /\ instances = [i \in FlowIds |-> Null]
    /\ lock = [i \in LockKeys |-> NoOwner]
    /\ pc = [c \in Procs |-> "idle"]
    /\ call = [c \in Procs |-> Call0]
    /\ loc = [c \in Procs |-> Loc0]
    /\ res = [c \in Procs |-> Res0]
    /\ acts = [c \in Procs |-> {}]
    /\ calls = 0
    /\ removal = [i \in FlowIds |-> NotRemoved]

NextQuery ==
    \/ \E c \in Procs, p \in Projects, fo \in QueryFolderArgs : List(c, p, fo)
    \/ \E c \in Procs : ListFormat(c)
    \/ \E c \in Procs, p \in Projects, fo \in QueryFolderArgs : Count(c, p, fo)

SpecQuery == InitQuery /\ [][NextQuery]_vars

\* ======================================================================
\* Properties
\* ======================================================================
UpdateCalls(flowId) == {c \in Procs : call[c].op = "update" /\ call[c].flowId = flowId}
SomeProject == CHOOSE p \in Projects : TRUE
SomeRequest == CHOOSE r \in Requests : r.type = UPDATE_TRIGGER
CanStart(c) == pc[c] \in {"idle", "done"} /\ calls < MaxCalls

\* C1: updates of one flowId are serialised: at most one of them is between a
\* granted acquireLock and its release, and that one holds the key; a further
\* caller is admitted only when the key is free and can time out only while it
\* is held; the keys of other flowIds do not matter to either.
C1_UpdatesSerialized ==
    /\ \A c, d \in Procs :
         (c # d /\ pc[c] \in Holding /\ pc[d] \in Holding)
             => call[c].flowId # call[d].flowId
    /\ \A c \in Procs : pc[c] \in Holding => lock[call[c].flowId] = c
    /\ \A c \in Procs, f \in KnownIds :
         CanStart(c) =>
           /\ ENABLED Update(c, SomeProject, f, SomeRequest) <=> lock[f] = NoOwner
           /\ ENABLED UpdateLockTimeout(c, SomeProject, f, SomeRequest)
                 <=> lock[f] # NoOwner

\* C1 witness: one update is inside its try block while a second caller for the
\* same flow has failed with the lock-timeout error.
C1_Witness ==
    \E c, d \in Procs :
        /\ c # d
        /\ pc[c] \in InTry /\ call[c].flowId \in FlowIds
        /\ pc[d] = "done" /\ call[d].op = "update"
        /\ res[d] = Error(LOCK_TIMEOUT, call[c].flowId)

\* C2: in every state where no update call for a flowId is in progress, the
\* lock for that flowId is not held (every exit path releases it).
C2_LockReleasedOnEveryExit ==
    \A f \in LockKeys :
        (\A c \in UpdateCalls(f) : pc[c] \notin Holding) => lock[f] = NoOwner

LockedActs == {"findOneBy", "flowRepo.update", "getFlowVersion", "createVersion",
               "applyOperation"}

\* C3: an update whose acquireLock was not granted fails with the lock-timeout
\* error and has made no collaborator call at all; the record and its versions
\* are read and written only by an update that holds the lock.
C3_NoLockNoAccess ==
    \A c \in Procs :
        call[c].op = "update" =>
          /\ "acquireLock" \notin acts[c] =>
                /\ acts[c] = {}
                /\ pc[c] = "done"
                /\ res[c] = Error(LOCK_TIMEOUT, call[c].flowId)
          /\ pc[c] \in ({"u_find"} \cup InTry) => lock[call[c].flowId] = c
          /\ acts[c] \cap LockedActs # {} => "acquireLock" \in acts[c]

\* C3 witness: a timed-out update, with nothing done, beside the update that
\* holds the key and is about to apply its operation.
C3_Witness ==
    \E c, d \in Procs :
        /\ pc[d] = "done" /\ res[d].kind = "error" /\ res[d].code = LOCK_TIMEOUT
        /\ acts[d] = {}
        /\ pc[c] = "u_apply" /\ call[c].flowId = call[d].flowId

\* a step of the update call c (between its acquireLock and its release)
UpdateStep(c) == call[c].op = "update" /\ pc[c] \in Holding /\ pc'[c] # pc[c]

Content(v) == [valid |-> v.valid, trigger |-> v.trigger, edits |-> v.edits]
VersionIdsOf(vs) == {v.id : v \in vs}

\* C4: no step of an update changes or removes a LOCKED version; when the
\* latest version is LOCKED the update creates a version with a new id and the
\* locked one's content, and applies the operation to that new version only.
C4_LockedStep ==
    \A c \in Procs :
        UpdateStep(c) =>
          /\ \A v \in versions : v.state = LOCKED => v \in versions'
          /\ (pc[c] = "u_getver" /\ loc'[c].version # Null
                /\ loc'[c].version.state = LOCKED) => pc'[c] = "u_fork"
          /\ (pc[c] = "u_fork" /\ pc'[c] = "u_apply") =>
                /\ loc'[c].version.id \notin VersionIdsOf(versions)
                /\ loc'[c].version.id # loc[c].version.id
                /\ loc'[c].version.state = DRAFT
                /\ Content(loc'[c].version) = Content(loc[c].version)
                /\ versions' = versions \cup {loc'[c].version}
          /\ (pc[c] = "u_apply" /\ pc'[c] = "u_release" /\ loc'[c].err = "none") =>
                /\ loc[c].version.state # LOCKED
                /\ \A v \in versions : v.id # loc[c].version.id => v \in versions'
                /\ VersionIdsOf(versions') = VersionIdsOf(versions)

C5_VersionWheneverVisible ==
    /\ \A c \in Procs :
         (pc[c] = "done" /\ res[c].kind = "created") =>
            /\ res[c].version # Null
            /\ res[c].version.trigger = [type |-> "EMPTY", valid |-> FALSE]
            /\ res[c].version.valid = FALSE
    /\ \A p \in Projects, f \in FlowIds :
         FindOneBy(flows, p, f) # Null => GetFlowVersion(versions, p, f, NoVersionId) # Null

RecordExists(projectId, id) ==
    \E i \in FlowIds : flows[i] # Null /\ i = id /\ flows[i].projectId = projectId

\* the step of request c that runs getOne's findOneBy
FindStep(c) == pc[c] = "g_find" /\ pc'[c] # "g_find"

C6_Step ==
    /\ \A p \in Projects, f \in KnownIds :
         ~RecordExists(p, f) => ~RecordExists(p, f)'
    /\ \A c \in Procs :
         (FindStep(c) /\ call[c].op = "getOne"
              /\ ~RecordExists(call[c].projectId, call[c].flowId))
            => (pc'[c] = "done" /\ res'[c] = [kind |-> "null"])

C6_State ==
    /\ \A f \in FlowIds :
         removal[f].removed => (removal[f].cleanupRan /\ removal[f].cleanupSawRecord)
    /\ \A c \in Procs :
         (call[c].op = "delete" /\ pc[c] = "done")
            => ~RecordExists(call[c].projectId, call[c].flowId)
    /\ \A c \in Procs :
         (call[c].op = "delete" /\ "flowRepo.delete" \in acts[c])
            => "onFlowDelete" \in acts[c]

\* C6: delete runs onFlowDelete before flowRepo.delete, so the cleanup of the
\* delete that removes the record saw the record; once delete has returned the
\* record is absent, stays absent, and getOne on an absent record returns null.
C6_CleanupBeforeDelete == []C6_State /\ [][C6_Step]_vars

\* C6 witness: a delete removed a flow's record and a later getOne for it
\* returned null.
C6_Witness ==
    \E c \in Procs :
        /\ call[c].op = "getOne" /\ pc[c] = "done" /\ res[c] = [kind |-> "null"]
        /\ call[c].flowId \in FlowIds /\ removal[call[c].flowId].removed

C7_State ==
    \A c \in Procs :
        pc[c] = "done" =>
          /\ call[c].op = "getOneOrThrow" =>
               \/ res[c] = Error(FLOW_NOT_FOUND, call[c].flowId)
               \/ /\ res[c].kind = "flow"
                  /\ res[c].flow.id = call[c].flowId
                  /\ res[c].flow.projectId = call[c].projectId
          /\ call[c].op = "getOne" => res[c].kind \in {"null", "flow"}

C7_Step ==
    \A c \in Procs :
        /\ (FindStep(c) /\ call[c].op \in {"getOne", "getOneOrThrow"}) =>
             IF RecordExists(call[c].projectId, call[c].flowId)
             THEN pc'[c] = "g_version" /\ loc'[c].flow = flows[call[c].flowId]
             ELSE /\ pc'[c] = "done"
                  /\ res'[c] = IF call[c].op = "getOneOrThrow"
                               THEN Error(FLOW_NOT_FOUND, call[c].flowId)
                               ELSE [kind |-> "null"]
        /\ (pc[c] = "g_instance" /\ pc'[c] = "done") =>
             /\ res'[c].kind = "flow"
             /\ res'[c].flow = [id |-> loc[c].flow.id,
                                projectId |-> loc[c].flow.projectId,
                                folderId |-> loc[c].flow.folderId,
                                version |-> loc[c].version,
                                status |-> IF instances[call[c].flowId] = Null
                                           THEN UNPUBLISHED
                                           ELSE instances[call[c].flowId].status]

\* C7: getOneOrThrow throws FLOW_NOT_FOUND carrying the id exactly when no
\* record exists for (projectId, id), also when the id exists under another
\* project, and otherwise returns the Flow getOne composes; getOne returns
\* null, never an error, when the record is absent, and reports UNPUBLISHED
\* when there is no instance record.
C7_NotFoundExactly == []C7_State /\ [][C7_Step]_vars

\* C7 witness: getOneOrThrow threw FLOW_NOT_FOUND for an id that exists, under
\* another project.
C7_Witness ==
    \E c \in Procs :
        /\ call[c].op = "getOneOrThrow" /\ pc[c] = "done"
        /\ res[c] = Error(FLOW_NOT_FOUND, call[c].flowId)
        /\ call[c].flowId \in FlowIds
        /\ flows[call[c].flowId] # Null
        /\ flows[call[c].flowId].projectId # call[c].projectId

\* the flows list / count are specified to select
Selected(projectId, folderId) ==
    {i \in FlowIds :
        /\ flows[i] # Null
        /\ flows[i].projectId = projectId
        /\ CASE folderId = Undefined -> TRUE
             [] folderId = NullSentinel -> flows[i].folderId = DbNull
             [] OTHER -> flows[i].folderId = folderId}

\* C8: list with 'NULL' selects exactly the project's flows with folderId
\* unset, with a folder id exactly the project's flows in that folder, with
\* undefined all the project's flows; count returns the size of the same set.
C8_ListCountSelection ==
    \A c \in Procs :
        /\ (call[c].op = "list" /\ pc[c] = "l_format") =>
              {row.id : row \in loc[c].rows} = Selected(call[c].projectId, call[c].folderId)
        /\ (call[c].op = "list" /\ pc[c] = "done") =>
              /\ {row.id : row \in res[c].data}
                    = Selected(call[c].projectId, call[c].folderId)
              /\ \A row \in res[c].data : flows[row.id].folderId = row.folderId
        /\ (call[c].op = "count" /\ pc[c] = "done") =>
              res[c].n = Cardinality(Selected(call[c].projectId, call[c].folderId))

\* C8 witness: list with 'NULL' returned a flow, and left out a flow of the
\* same project that is in a folder.
C8_Witness ==
    \E c \in Procs :
        /\ call[c].op = "list" /\ pc[c] = "done" /\ call[c].folderId = NullSentinel
        /\ res[c].data # {}
        /\ \E i \in FlowIds : /\ flows[i] # Null
                              /\ flows[i].projectId = call[c].projectId
                              /\ flows[i].folderId # DbNull
                              /\ i \notin {row.id : row \in res[c].data}

FolderCall(c) == call[c].op = "update" /\ call[c].req.type = CHANGE_FOLDER

C9_State ==
    \A c \in Procs :
        FolderCall(c) =>
            acts[c] \cap {"getFlowVersion", "createVersion", "applyOperation"} = {}

C9_Step ==
    \A c \in Procs :
        (FolderCall(c) /\ pc[c] \notin {"idle", "done"} /\ pc'[c] # pc[c]) =>
          /\ versions' = versions
          /\ nextVersionId' = nextVersionId
          /\ instances' = instances
          /\ \A i \in FlowIds : i # call[c].flowId => flows'[i] = flows[i]
          /\ LET f == call[c].flowId
                 requested == call[c].req.folderId
             IN  f \in FlowIds =>
                   IF pc[c] = "u_folder" /\ loc'[c].err = "none" /\ flows[f] # Null
                   THEN /\ flows'[f].id = flows[f].id
                        /\ flows'[f].projectId = flows[f].projectId
                        /\ flows'[f].folderId =
                              (IF requested = Undefined THEN DbNull ELSE requested)
                   ELSE flows'[f] = flows[f]

\* C9: a CHANGE_FOLDER update changes only the record's folderId, to the
\* requested id or to null; it reads, creates and changes no version, whatever
\* the latest version's state.
C9_FolderOnly == []C9_State /\ [][C9_Step]_vars

\* C9 witness: a CHANGE_FOLDER update has moved a flow whose latest version is
\* LOCKED into folder fA.
C9_Witness ==
    \E c \in Procs :
        /\ FolderCall(c) /\ pc[c] = "u_release" /\ "flowRepo.update" \in acts[c]
        /\ call[c].flowId \in FlowIds
        /\ flows[call[c].flowId] # Null
        /\ flows[call[c].flowId].folderId = "fA"
        /\ LatestOf(versions, call[c].flowId) # Null
        /\ LatestOf(versions, call[c].flowId).state = LOCKED

\* a delete has removed the flow's record, and its versions with it
Deleted(flowId) ==
    flowId \in FlowIds /\ removal[flowId].removed /\ removal[flowId].hadVersion

C10_Step ==
    \A c \in Procs :
        (call[c].op = "update" /\ pc[c] = "u_getver" /\ pc'[c] # pc[c]
             /\ Deleted(call[c].flowId))
           => loc'[c].err # TYPE_ERROR

C10_State ==
    \A c \in Procs :
        (call[c].op = "update" /\ pc[c] \in {"u_apply", "u_release"}
             /\ acts[c] \cap {"createVersion", "applyOperation"} # {})
           => \A v \in versions :
                 v.id = loc[c].version.id => flows[v.flowId] # Null

\* C10: when a delete has removed the flow's record under an update that holds
\* the lock, the update does not fail on the missing version (it goes on to
\* return the Flow or null), and no version the update created or changed is
\* left for a flow whose record is gone.
C10_UpdateVsDelete == []C10_State /\ [][C10_Step]_vars

====
